---- MODULE Spec2Model ----
(***************************************************************************)
(* Model of package pe (github.com/mewrev/pe): the lazily cached header    *)
(* chain of a File (DOS header, COFF file header, optional header,         *)
(* section headers, overlay) over a random-access byte source.             *)
(*                                                                         *)
(* The byte source is a sequence of bytes 0..255; every header is decoded  *)
(* little-endian from the bytes the source yields, as encoding/binary      *)
(* does.  32-bit and 64-bit quantities are kept as pairs [hi, lo] in base  *)
(* 2^16 (value = hi * 2^16 + lo, 0 <= lo < 2^16) so that uint32            *)
(* wrap-around and int64 differences are computed exactly.                 *)
(***************************************************************************)
EXTENDS Integers, Sequences, FiniteSets, TLC

VARIABLES src, emptyReadEOF, doshdr, fileHdr, opthdr, sectHdrs, overlay,
          last, succ, failed, twin, calc, race

\* the File over the source src, and the record of the calls made on it
fileVars == <<src, emptyReadEOF, doshdr, fileHdr, opthdr, sectHdrs, overlay,
              last, succ, failed>>

vars == <<fileVars, twin, calc, race>>

----------------------------------------------------------------------------
(* Bounds of the explored inputs.                                          *)

\* largest number of sections a generated source declares
MaxSect == 2
\* largest number of bytes a generated source carries after its last section
MaxTrail == 2

----------------------------------------------------------------------------
(* Fixed-width arithmetic.                                                 *)

B16 == 2^16

Min(a, b) == IF a < b THEN a ELSE b

\* the integer hi * 2^16 + lo, normalised so that 0 <= lo < 2^16
Norm(hi, lo) == [hi |-> hi + (lo \div B16), lo |-> lo % B16]

FromInt(n) == Norm(0, n)

Add(a, b) == Norm(a.hi + b.hi, a.lo + b.lo)

Sub(a, b) == Norm(a.hi - b.hi, a.lo - b.lo)

Less(a, b) == a.hi < b.hi \/ (a.hi = b.hi /\ a.lo < b.lo)

Max64(a, b) == IF Less(a, b) THEN b ELSE a

\* conversion to uint32: the value modulo 2^32
Wrap32(a) == [hi |-> a.hi % B16, lo |-> a.lo]

\* uint32 addition, as Go computes a + b on two uint32 operands
AddU32(a, b) == Wrap32(Add(a, b))

\* uint32 subtraction, as Go computes a - b on two uint32 operands
SubU32(a, b) == Wrap32(Sub(a, b))

\* a length as far as a source shorter than 2^16 bytes can tell it apart
ClipLen(a) == IF a.hi > 0 THEN B16 ELSE a.lo

----------------------------------------------------------------------------
(* Options: a nil pointer or nil slice is None, a set one is Some(v).      *)

None == <<>>

Some(v) == <<v>>

----------------------------------------------------------------------------
(* Little-endian decoding (encoding/binary.LittleEndian); offsets are      *)
(* 0-based into the 1-based sequence d.                                    *)

U8(d, off) == d[off + 1]

LE16(d, off) == d[off + 1] + 256 * d[off + 2]

LE32(d, off) == [hi |-> LE16(d, off + 2), lo |-> LE16(d, off)]

Words(d, off, n) == [i \in 1..n |-> LE16(d, off + 2 * (i - 1))]

Zeros(n) == [i \in 1..n |-> 0]

dosHdrSize == 64

\* binary.Size(DOSHeader): the 64-byte DOS header without its 2-byte signature
dosHdrBodySize == dosHdrSize - 2

fileHdrSize == 24

\* binary.Size(FileHeader): the 24-byte region without its 4-byte signature
fileHdrBodySize == fileHdrSize - 4

sectHdrSize == 40

maxOptHdrSize == 224

\* binary.Size(OptHeader32)
optHdr32Size == 96

\* binary.Size(DataDirectory)
dataDirSize == 8

\* "MZ"
mz == 23117

\* "PE\0\0" = 0x00004550, as the pair hi = 0x0000, lo = 0x4550
pe == [hi |-> 0, lo |-> 17744]

DecodeDOSHeader(d) ==
  [ LastPageSize   |-> LE16(d, 0),
    NPage          |-> LE16(d, 2),
    NReloc         |-> LE16(d, 4),
    NHdrPar        |-> LE16(d, 6),
    MinAlloc       |-> LE16(d, 8),
    MaxAlloc       |-> LE16(d, 10),
    SS             |-> LE16(d, 12),
    SP             |-> LE16(d, 14),
    Checksum       |-> LE16(d, 16),
    IP             |-> LE16(d, 18),
    CS             |-> LE16(d, 20),
    RelocTblOffset |-> LE16(d, 22),
    OverlayNum     |-> LE16(d, 24),
    Res            |-> Words(d, 26, 4),
    OEMID          |-> LE16(d, 34),
    OEMInfo        |-> LE16(d, 36),
    Res2           |-> Words(d, 38, 10),
    PEHdrOffset    |-> LE32(d, 58) ]

DecodeFileHeader(d) ==
  [ Arch         |-> LE16(d, 0),
    NSection     |-> LE16(d, 2),
    Created      |-> LE32(d, 4),
    SymTblOffset |-> LE32(d, 8),
    NSymbol      |-> LE32(d, 12),
    OptHdrSize   |-> LE16(d, 16),
    Flags        |-> LE16(d, 18) ]

DecodeOptHeader32(d) ==
  [ State             |-> LE16(d, 0),
    MajorLinkVer      |-> U8(d, 2),
    MinorLinkVer      |-> U8(d, 3),
    CodeSize          |-> LE32(d, 4),
    DataSize          |-> LE32(d, 8),
    BSSSize           |-> LE32(d, 12),
    EntryRelAddr      |-> LE32(d, 16),
    CodeBase          |-> LE32(d, 20),
    DataBase          |-> LE32(d, 24),
    ImageBase         |-> LE32(d, 28),
    SectAlign         |-> LE32(d, 32),
    FileAlign         |-> LE32(d, 36),
    MajorOSVer        |-> LE16(d, 40),
    MinorOSVer        |-> LE16(d, 42),
    MajorImageVer     |-> LE16(d, 44),
    MinorImageVer     |-> LE16(d, 46),
    MajorSubsystemVer |-> LE16(d, 48),
    MinorSubsystemVer |-> LE16(d, 50),
    Res               |-> LE32(d, 52),
    ImageSize         |-> LE32(d, 56),
    HdrSize           |-> LE32(d, 60),
    Checksum          |-> LE32(d, 64),
    Subsystem         |-> LE16(d, 68),
    Flags             |-> LE16(d, 70),
    ReserveStackSize  |-> LE32(d, 72),
    InitStackSize     |-> LE32(d, 76),
    ReserveHeapSize   |-> LE32(d, 80),
    InitHeapSize      |-> LE32(d, 84),
    LoaderFlags       |-> LE32(d, 88),
    NDataDir          |-> LE32(d, 92) ]

DecodeDataDirectory(d, off) ==
  [ RelAddr |-> LE32(d, off), Size |-> LE32(d, off + 4) ]

\* a []DataDirectory of len entries; elems lists them, except that of a
\* slice longer than DirsShown only the first DirsShown are listed (a slice
\* that long never gets filled: it holds the zero values make left in it)
DirsShown == (maxOptHdrSize - optHdr32Size) \div dataDirSize + 1

DataDirsOf(len, elems) == [ len |-> len, elems |-> elems ]

\* make([]DataDirectory, len)
MakeDataDirs(len) ==
  DataDirsOf(len, [i \in 1..Min(ClipLen(len), DirsShown) |->
                     DecodeDataDirectory(Zeros(dataDirSize), 0)])

\* a slice of len entries decoded from the 8 * len bytes d, the last entry
\* of the slice from the first 8 bytes
DecodeDataDirsReversed(d, len) ==
  DataDirsOf(len, [i \in 1..ClipLen(len) |->
                     DecodeDataDirectory(d, dataDirSize * (ClipLen(len) - i))])

\* the slice of len entries decoded from the 8 * len bytes d
DecodeDataDirs(d, len) ==
  DataDirsOf(len, [i \in 1..ClipLen(len) |->
                     DecodeDataDirectory(d, dataDirSize * (i - 1))])

DecodeSectHeader(d) ==
  [ Name           |-> SubSeq(d, 1, 8),
    VirtSize       |-> LE32(d, 8),
    RelAddr        |-> LE32(d, 12),
    Size           |-> LE32(d, 16),
    Offset         |-> LE32(d, 20),
    RelocsOffset   |-> LE32(d, 24),
    LineNumsOffset |-> LE32(d, 28),
    NReloc         |-> LE16(d, 32),
    NLineNum       |-> LE16(d, 34),
    Flags          |-> LE32(d, 36) ]

\* new(DOSHeader), new(FileHeader), new(SectHeader): the zero values
ZeroDOSHeader == DecodeDOSHeader(Zeros(dosHdrBodySize))

ZeroFileHeader == DecodeFileHeader(Zeros(fileHdrBodySize))

ZeroSectHeader == DecodeSectHeader(Zeros(sectHdrSize))

\* new(OptHeader): a zero OptHeader32 and a nil DataDirs slice
OptHeaderOf(h32, dirs) == [ OptHeader32 |-> h32, DataDirs |-> dirs ]

ZeroOptHeader == OptHeaderOf(DecodeOptHeader32(Zeros(optHdr32Size)), None)

----------------------------------------------------------------------------
(* The File during one call: its reader r, its five cached fields, and    *)
(* what the call has done so far: the reads and seeks issued on file.r,    *)
(* the headers whose parse function has run to its end without error      *)
(* ("OptHeader32": the fixed part of the optional header has been read),   *)
(* the warnings logged, and the parse functions entered, in their order.   *)

\* the File as the variables hold it, at the start of a call
CurFile ==
  [ r |-> src,
    doshdr |-> doshdr, fileHdr |-> fileHdr, opthdr |-> opthdr,
    sectHdrs |-> sectHdrs, overlay |-> overlay,
    reads |-> {}, nread |-> 0, nseek |-> 0, parsed |-> {}, nwarn |-> 0,
    tried |-> <<>> ]

\* r.ReadAt(p, off) with len(p) = n on the reader over the bytes r: the
\* bytes it yields
ReadAt(r, off, n) ==
  IF n = 0 \/ off.hi # 0 \/ off.lo >= Len(r)
  THEN <<>>
  ELSE SubSeq(r, off.lo + 1, Min(off.lo + n, Len(r)))

\* the bytes the source holds at off, at most n of them
ReadAtBytes(off, n) == ReadAt(src, off, n)

\* the call file.r.ReadAt(p, off) recorded in the File's log
LogReadAt(f, off, data) ==
  [f EXCEPT !.reads = @ \cup {off.lo + i - 1 : i \in 1..Len(data)},
            !.nread = @ + 1]

\* io.ReadFull(sr, buf) with len(buf) = n (what binary.Read does first), on
\* sr = io.NewSectionReader(file.r, base, limit) whose position is pos:
\* Read asks the reader for min(n, limit - pos) bytes at base + pos, and
\* reports EOF without asking once pos has reached limit
ReadFull(f, base, pos, limit, n) ==
  LET off  == Add(base, FromInt(pos))
      want == Min(n, limit - pos)
      data == ReadAt(f.r, off, want)
  IN  IF n = 0 THEN [ok |-> TRUE, data |-> <<>>, file |-> f]
      ELSE IF pos >= limit THEN [ok |-> FALSE, data |-> <<>>, file |-> f]
      ELSE [ok |-> Len(data) = n, data |-> data,
            file |-> LogReadAt(f, off, data)]

\* results of the parse functions and of the accessors
Ret(f, e) == [file |-> f, err |-> e, panicked |-> FALSE, val |-> None]

RetVal(f, v) == [file |-> f, err |-> FALSE, panicked |-> FALSE, val |-> v]

Panic(f) == [file |-> f, err |-> FALSE, panicked |-> TRUE, val |-> None]

\* the number of non-zero words of a reserved field
NonZero(words) == Cardinality({ i \in DOMAIN words : words[i] # 0 })

\* an end of parseDOSHeader that takes a non-zero reserved word for an error
parseDOSHeaderDoneStrict(f, h) ==
  Ret([f EXCEPT !.doshdr = Some(h),
                !.nwarn = @ + NonZero(h.Res) + NonZero(h.Res2),
                !.parsed = @ \cup {"DOSHeader"}],
      NonZero(h.Res) + NonZero(h.Res2) > 0)

\* the end of parseDOSHeader: file.doshdr holds h, and one warning is logged
\* for each non-zero word of Res and of Res2
parseDOSHeaderDone(f, h) ==
  Ret([f EXCEPT !.doshdr = Some(h),
                !.nwarn = @ + NonZero(h.Res) + NonZero(h.Res2),
                !.parsed = @ \cup {"DOSHeader"}], FALSE)

\* parseDOSHeader from the read of the header's body (r2) on
parseDOSHeaderBody(r2) ==
  IF ~r2.ok THEN Ret(r2.file, TRUE)
  ELSE parseDOSHeaderDone(r2.file, DecodeDOSHeader(r2.data))

\* parseDOSHeader from the read of the signature (r1) on
parseDOSHeaderMagic(r1) ==
  IF ~r1.ok THEN Ret(r1.file, TRUE)
  ELSE IF LE16(r1.data, 0) # mz THEN Ret(r1.file, TRUE)
  ELSE parseDOSHeaderBody(
         ReadFull([r1.file EXCEPT !.doshdr = Some(ZeroDOSHeader)],
                  FromInt(0), 2, dosHdrSize, dosHdrBodySize))

\* parseDOSHeader without the comparison of the signature with "MZ"
parseDOSHeaderAnyMagic(f) ==
  LET r1 == ReadFull([f EXCEPT !.tried = Append(@, "DOSHeader")],
                     FromInt(0), 0, dosHdrSize, 2)
  IN  IF ~r1.ok THEN Ret(r1.file, TRUE)
      ELSE parseDOSHeaderBody(
             ReadFull([r1.file EXCEPT !.doshdr = Some(ZeroDOSHeader)],
                      FromInt(0), 2, dosHdrSize, dosHdrBodySize))

\* the File f on entry to the parse function name
Entered(f, name) == [f EXCEPT !.tried = Append(@, name)]

\* func (file *File) parseDOSHeader() error
parseDOSHeader(f) ==
  parseDOSHeaderMagic(ReadFull(Entered(f, "DOSHeader"),
                               FromInt(0), 0, dosHdrSize, 2))

\* DOSHeader once parseDOSHeader has returned r
DOSHeaderParsed(r) == IF r.err THEN r ELSE RetVal(r.file, r.file.doshdr)

\* func (file *File) DOSHeader() (doshdr *DOSHeader, err error)
DOSHeader(f) ==
  IF f.doshdr = None
  THEN DOSHeaderParsed(parseDOSHeader(f))
  ELSE RetVal(f, f.doshdr)

\* parseFileHeader from the read of the header's body (r2) on
parseFileHeaderBody(r2) ==
  IF ~r2.ok THEN Ret(r2.file, TRUE)
  ELSE Ret([r2.file EXCEPT !.fileHdr = Some(DecodeFileHeader(r2.data)),
                            !.parsed = @ \cup {"FileHeader"}], FALSE)

\* parseFileHeader from the read of the signature (r1) at peoff on
parseFileHeaderMagic(r1, peoff) ==
  IF ~r1.ok THEN Ret(r1.file, TRUE)
  ELSE IF LE32(r1.data, 0) # pe THEN Ret(r1.file, TRUE)
  ELSE parseFileHeaderBody(
         ReadFull([r1.file EXCEPT !.fileHdr = Some(ZeroFileHeader)],
                  peoff, 4, fileHdrSize, fileHdrBodySize))

\* parseFileHeader once file.DOSHeader() has returned d
parseFileHeaderAt(d) ==
  IF d.err THEN Ret(d.file, TRUE)
  ELSE parseFileHeaderMagic(
         ReadFull(d.file, d.val[1].PEHdrOffset, 0, fileHdrSize, 4),
         d.val[1].PEHdrOffset)

\* func (file *File) parseFileHeader() error
parseFileHeader(f) == parseFileHeaderAt(DOSHeader(Entered(f, "FileHeader")))

\* FileHeader once parseFileHeader has returned r
FileHeaderParsed(r) == IF r.err THEN r ELSE RetVal(r.file, r.file.fileHdr)

\* func (file *File) FileHeader() (fileHdr *FileHeader, err error)
FileHeader(f) ==
  IF f.fileHdr = None
  THEN FileHeaderParsed(parseFileHeader(f))
  ELSE RetVal(f, f.fileHdr)

\* parseOptHeader from the read of the data directories (r2) on
parseOptHeaderDirs(r2, h32) ==
  IF ~r2.ok THEN Ret(r2.file, TRUE)
  ELSE Ret([r2.file EXCEPT
              !.opthdr = Some(OptHeaderOf(h32,
                                Some(DecodeDataDirs(r2.data, h32.NDataDir)))),
              !.parsed = @ \cup {"OptHeader"}], FALSE)

\* parseOptHeader from the decoded OptHeader32 (h32) on: a warning is logged
\* when Res is not zero, the DataDirs slice is made and then read
parseOptHeaderDecoded(f, optoff, h32) ==
  parseOptHeaderDirs(
    ReadFull([f EXCEPT
                !.opthdr = Some(OptHeaderOf(h32,
                                  Some(MakeDataDirs(h32.NDataDir)))),
                !.nwarn = @ + (IF h32.Res # FromInt(0) THEN 1 ELSE 0),
                !.parsed = @ \cup {"OptHeader32"}],
             optoff, optHdr32Size, maxOptHdrSize,
             dataDirSize * ClipLen(h32.NDataDir)),
    h32)

\* parseOptHeader from the read of the OptHeader32 (r1) on
parseOptHeaderRead(r1, optoff) ==
  IF ~r1.ok THEN Ret(r1.file, TRUE)
  ELSE parseOptHeaderDecoded(r1.file, optoff, DecodeOptHeader32(r1.data))

\* parseOptHeader once file.DOSHeader() has returned d
parseOptHeaderAt(d) ==
  IF d.err THEN Ret(d.file, TRUE)
  ELSE parseOptHeaderRead(
         ReadFull([d.file EXCEPT !.opthdr = Some(ZeroOptHeader)],
                  Add(d.val[1].PEHdrOffset, FromInt(fileHdrSize)),
                  0, maxOptHdrSize, optHdr32Size),
         Add(d.val[1].PEHdrOffset, FromInt(fileHdrSize)))

\* func (file *File) parseOptHeader() error
parseOptHeader(f) == parseOptHeaderAt(DOSHeader(Entered(f, "OptHeader")))

\* OptHeader once parseOptHeader has returned r
OptHeaderParsed(r) == IF r.err THEN r ELSE RetVal(r.file, r.file.opthdr)

\* func (file *File) OptHeader() (opthdr *OptHeader, err error)
OptHeader(f) ==
  IF f.opthdr = None
  THEN OptHeaderParsed(parseOptHeader(f))
  ELSE RetVal(f, f.opthdr)

\* the loop of parseSectHeaders from index i on: n entries, read through
\* sr = io.NewSectionReader(file.r, base, n * sectHdrSize)
RECURSIVE readSectHeaders(_, _, _, _)
readSectHeaders(f, base, n, i) ==
  IF i = n THEN Ret([f EXCEPT !.parsed = @ \cup {"SectHeaders"}], FALSE)
  ELSE
    LET f1 == [f EXCEPT !.sectHdrs =
                 Some([@[1] EXCEPT ![i + 1] = Some(ZeroSectHeader)])]
        r  == ReadFull(f1, base, sectHdrSize * i, sectHdrSize * n, sectHdrSize)
    IN  IF ~r.ok THEN Ret(r.file, TRUE)
        ELSE readSectHeaders(
               [r.file EXCEPT !.sectHdrs =
                  Some([@[1] EXCEPT ![i + 1] = Some(DecodeSectHeader(r.data))])],
               base, n, i + 1)

\* parseSectHeaders once file.FileHeader() has returned h
parseSectHeadersFrom(h, optoff) ==
  IF h.err THEN Ret(h.file, TRUE)
  ELSE readSectHeaders(
         [h.file EXCEPT !.sectHdrs =
            Some([i \in 1..h.val[1].NSection |-> None])],
         Add(optoff, FromInt(h.val[1].OptHdrSize)),
         h.val[1].NSection, 0)

\* parseSectHeaders once file.DOSHeader() has returned d
parseSectHeadersAt(d) ==
  IF d.err THEN Ret(d.file, TRUE)
  ELSE parseSectHeadersFrom(
         FileHeader(d.file),
         Add(d.val[1].PEHdrOffset, FromInt(fileHdrSize)))

\* func (file *File) parseSectHeaders() error
parseSectHeaders(f) ==
  parseSectHeadersAt(DOSHeader(Entered(f, "SectHeaders")))

\* SectHeaders once parseSectHeaders has returned r
SectHeadersParsed(r) == IF r.err THEN r ELSE RetVal(r.file, r.file.sectHdrs)

\* a SectHeaders that has the optional header parsed first
SectHeadersWithOpt(f) ==
  IF f.sectHdrs = None
  THEN SectHeadersParsed(parseSectHeaders(OptHeader(f).file))
  ELSE RetVal(f, f.sectHdrs)

\* func (file *File) SectHeaders() (sectHdrs []*SectHeader, err error)
SectHeaders(f) ==
  IF f.sectHdrs = None
  THEN SectHeadersParsed(parseSectHeaders(f))
  ELSE RetVal(f, f.sectHdrs)

\* the loop of parseOverlay: the largest uint32 sum Offset + Size over the
\* entries of hdrs, starting from acc; dereferencing a nil entry panics,
\* which the result reports as None
RECURSIVE overlayStartOf(_, _)
overlayStartOf(hdrs, acc) ==
  IF hdrs = <<>> THEN Some(acc)
  ELSE IF Head(hdrs) = None THEN None
  ELSE LET sectStart == AddU32(Head(hdrs)[1].Offset, Head(hdrs)[1].Size)
       IN  overlayStartOf(Tail(hdrs),
                          IF Less(acc, sectStart) THEN sectStart ELSE acc)

\* parseOverlay once file.r.ReadAt has filled the overlay buffer with data
parseOverlayGot(f2, overlaySize, data) ==
  IF overlaySize.lo = 0 /\ emptyReadEOF THEN Ret(f2, TRUE)
  ELSE Ret([f2 EXCEPT !.overlay = Some(data),
                      !.parsed = @ \cup {"Overlay"}], FALSE)

\* parseOverlay from make([]byte, overlaySize) on
parseOverlayFrom(f1, overlayStart, overlaySize) ==
  IF overlaySize.hi < 0 THEN Panic(f1)
  ELSE
    LET data == ReadAt(f1.r, overlayStart, overlaySize.lo)
    IN  parseOverlayGot(LogReadAt(f1, overlayStart, data), overlaySize, data)

\* parseOverlay once the loop over the section headers has ended with start:
\* overlayEnd is what Seek(0, io.SeekEnd) reports
parseOverlaySects(f, start) ==
  IF start = None THEN Panic(f)
  ELSE parseOverlayFrom([f EXCEPT !.nseek = @ + 1], start[1],
                        Sub(FromInt(Len(f.r)), start[1]))

\* parseOverlay once file.SectHeaders() has returned s
parseOverlayAt(s) ==
  IF s.err THEN Ret(s.file, TRUE)
  ELSE parseOverlaySects(s.file, overlayStartOf(s.val[1], FromInt(0)))

\* func (file *File) parseOverlay() error
parseOverlay(f) == parseOverlayAt(SectHeaders(Entered(f, "Overlay")))

\* Overlay once parseOverlay has returned r
OverlayParsed(r) ==
  IF r.err \/ r.panicked THEN r ELSE RetVal(r.file, r.file.overlay)

\* Overlay without the test of the cached field: it locates and reads the
\* overlay on every call
OverlayUncached(f) == OverlayParsed(parseOverlay(f))

\* func (file *File) Overlay() ([]byte, error)
Overlay(f) ==
  IF f.overlay = None
  THEN OverlayParsed(parseOverlay(f))
  ELSE RetVal(f, f.overlay)

\* func (file *File) Section(sectHdr *SectHeader) (data []byte, err error):
\* ioutil.ReadAll over io.NewSectionReader(file.r, Offset, Size) returns the
\* bytes read until EOF with a nil error (the sources explored are shorter
\* than the 512 bytes ReadAll asks for first, so one ReadAt yields them)
Section(f, sectHdr) ==
  LET n    == ClipLen(sectHdr.Size)
      data == ReadAt(f.r, sectHdr.Offset, n)
  IN  IF n = 0 THEN RetVal(f, Some(<<>>))
      ELSE RetVal(LogReadAt(f, sectHdr.Offset, data), Some(data))

\* DOSStub once file.DOSHeader() has returned d
DOSStubAt(d) ==
  IF d.err THEN d
  ELSE
    LET stubSize == SubU32(d.val[1].PEHdrOffset, FromInt(dosHdrSize))
        n        == ClipLen(stubSize)
        data     == ReadAt(d.file.r, FromInt(dosHdrSize), n)
    IN  IF stubSize = FromInt(0) THEN RetVal(d.file, None)
        ELSE IF Len(data) = n
             THEN RetVal(LogReadAt(d.file, FromInt(dosHdrSize), data),
                         Some(data))
             ELSE Ret(LogReadAt(d.file, FromInt(dosHdrSize), data), TRUE)

\* func (file *File) DOSStub() ([]byte, error)
DOSStub(f) == DOSStubAt(DOSHeader(f))

\* Parse once parseOptHeader has returned o, or was skipped
ParseSectHeaders(o) == IF o.err THEN o ELSE parseSectHeaders(o.file)

\* a Parse that parses the optional header whatever OptHdrSize is
ParseOptHeaderAlways(h) ==
  IF h.err THEN h ELSE ParseSectHeaders(parseOptHeader(h.file))

\* Parse once parseFileHeader has returned h
ParseOptHeader(h) ==
  IF h.err THEN h
  ELSE ParseSectHeaders(IF h.file.fileHdr[1].OptHdrSize > 0
                        THEN parseOptHeader(h.file)
                        ELSE Ret(h.file, FALSE))

\* Parse once parseDOSHeader has returned d
ParseFileHeader(d) == IF d.err THEN d ELSE ParseOptHeader(parseFileHeader(d.file))

\* func (file *File) Parse() error
Parse(f) == ParseFileHeader(parseDOSHeader(f))

----------------------------------------------------------------------------
(* The byte sources explored: PE images laid out as a linker does (DOS     *)
(* header, stub, file header, optional header, section headers, section    *)
(* data, trailing bytes), and damaged variants of them.                    *)

Bytes16(n) == <<n % 256, n \div 256>>

Bytes32(a) == Bytes16(a.lo) \o Bytes16(a.hi)

Take(s, n) == SubSeq(s, 1, Min(n, Len(s)))

\* the largest uint32, 0xFFFFFFFF
MaxU32 == [hi |-> B16 - 1, lo |-> B16 - 1]

\* number of data bytes of each generated section
SectDataLen == 3

\* a 64-byte DOS header: signature, 13 words, Res, OEMID, OEMInfo, Res2 and
\* PEHdrOffset; resv is the value of the reserved words
DOSBytes(isMZ, resv, peoff) ==
  (IF isMZ THEN <<77, 90>> ELSE <<77, 91>>)
    \o [i \in 1..26 |-> i]
    \o Bytes16(resv) \o Zeros(6)
    \o <<7, 0, 9, 0>>
    \o Bytes16(resv) \o Zeros(18)
    \o Bytes32(peoff)

\* a 24-byte file header: signature and body
FileHdrBytes(isPE, nsect, optsz) ==
  (IF isPE THEN <<80, 69, 0, 0>> ELSE <<80, 69, 0, 1>>)
    \o <<76, 1>> \o Bytes16(nsect) \o <<1, 2, 3, 4>> \o Zeros(8)
    \o Bytes16(optsz) \o <<2, 1>>

\* a 32-bit optional header with ndir data directories
OptHdrBytes(ndir) ==
  <<11, 1, 6, 0>>
    \o [i \in 1..48 |-> i] \o Zeros(4) \o [i \in 1..36 |-> 100 + i]
    \o Bytes32(FromInt(ndir))
    \o [i \in 1..(dataDirSize * ndir) |-> 200 + (i % 16)]

\* the optsz bytes between the file header and the section headers
OptRegion(optsz, ndir) ==
  LET h == OptHdrBytes(ndir)
  IN  Take(h, optsz) \o Zeros(optsz - Min(optsz, Len(h)))

\* the 40-byte header of section i, with the given file offset and size
SectHdrBytes(i, off, size) ==
  <<46, 116, 48 + i, 0, 0, 0, 0, 0>>
    \o Bytes32(FromInt(4096)) \o Bytes32(FromInt(4096 * i))
    \o Bytes32(size) \o Bytes32(off)
    \o Zeros(12) \o <<32, 0, 0, 96>>

\* where the header of section i of the image p places the section's data:
\*   "inside": the sections follow the headers, one after the other;
\*   "past":   the last section claims one byte more than the source holds;
\*   "wrap":   the last section has Offset = 0xFFFFFFFF, so that
\*             Offset + Size exceeds 32 bits
SectExtent(p, i) ==
  LET hdrEnd == p.place + fileHdrSize + p.optsz + sectHdrSize * p.nsect
      off    == FromInt(hdrEnd + SectDataLen * (i - 1))
  IN  IF i = p.nsect /\ p.shape = "past"
        THEN [off |-> off, size |-> FromInt(SectDataLen + p.trail + 1)]
      ELSE IF i = p.nsect /\ p.shape = "wrap"
        THEN [off |-> MaxU32, size |-> FromInt(1)]
      ELSE [off |-> off, size |-> FromInt(SectDataLen)]

RECURSIVE SectHdrsBytes(_, _)
SectHdrsBytes(p, i) ==
  IF i > p.nsect THEN <<>>
  ELSE SectHdrBytes(i, SectExtent(p, i).off, SectExtent(p, i).size)
         \o SectHdrsBytes(p, i + 1)

\* the image described by p, cut after p.cut bytes
Image(p) ==
  Take( DOSBytes(p.isMZ, p.resv, p.peoff)
          \o [i \in 1..(p.place - dosHdrSize) |-> 14]
          \o FileHdrBytes(p.isPE, p.nsect, p.optsz)
          \o OptRegion(p.optsz, p.ndir)
          \o SectHdrsBytes(p, 1)
          \o [i \in 1..(SectDataLen * p.nsect) |-> 64 + i]
          \o [i \in 1..p.trail |-> IF i <= 6 THEN 128 + i ELSE 0],
        p.cut )

\* no cut: longer than every image
NoCut == 2 * B16 - 1

\* an image with sound headers
SoundImage(n, t, sh, optsz, ndir) ==
  [isMZ |-> TRUE, isPE |-> TRUE, resv |-> 0, peoff |-> FromInt(dosHdrSize),
   place |-> dosHdrSize, nsect |-> n, optsz |-> optsz, ndir |-> ndir,
   trail |-> t, shape |-> sh, cut |-> NoCut]

\* the images with sound headers: every number of sections and of trailing
\* bytes, without an optional header and with one of one data directory;
\* with an optional header, every placement of the last section
SoundImages ==
  { SoundImage(n, t, "inside", 0, 0) : n \in 0..MaxSect, t \in 0..MaxTrail }
    \cup
  { SoundImage(n, t, sh, optHdr32Size + dataDirSize, 1) :
      n \in 0..MaxSect, t \in 0..MaxTrail, sh \in {"inside", "past", "wrap"} }

\* the image the damaged variants start from: a DOS stub of 4 bytes, an
\* optional header with one data directory, the most sections, one trailing
\* byte
BaseImage ==
  [isMZ |-> TRUE, isPE |-> TRUE, resv |-> 0,
   peoff |-> FromInt(dosHdrSize + 4), place |-> dosHdrSize + 4,
   nsect |-> MaxSect, optsz |-> optHdr32Size + dataDirSize, ndir |-> 1,
   trail |-> 1, shape |-> "inside", cut |-> NoCut]

\* truncated sources: the base image cut inside each of its structures
CutImages ==
  { [BaseImage EXCEPT !.cut = c] :
      c \in { 0, 1, 2, 40, dosHdrSize, BaseImage.place + 2,
              BaseImage.place + 10, BaseImage.place + fileHdrSize,
              BaseImage.place + fileHdrSize + 50,
              BaseImage.place + fileHdrSize + optHdr32Size + 4,
              BaseImage.place + fileHdrSize + BaseImage.optsz + 10,
              BaseImage.place + fileHdrSize + BaseImage.optsz + sectHdrSize * MaxSect - 1 } }

\* sources with a wrong signature, a PEHdrOffset that points elsewhere, an
\* optional header whose declared size and content disagree, more data
\* directories than the optional header can hold, no optional header but
\* 96 bytes and more behind the file header, non-zero reserved words; and
\* the base image with two data directories
BadImages ==
  { [BaseImage EXCEPT !.isMZ = FALSE],
    [BaseImage EXCEPT !.isPE = FALSE],
    [BaseImage EXCEPT !.isPE = FALSE, !.optsz = 0, !.ndir = 0],
    [BaseImage EXCEPT !.peoff = MaxU32],
    [BaseImage EXCEPT !.peoff = FromInt(0)],
    [BaseImage EXCEPT !.peoff = FromInt(dosHdrSize)],
    [BaseImage EXCEPT !.optsz = optHdr32Size, !.ndir = 1],
    [BaseImage EXCEPT !.optsz = maxOptHdrSize, !.ndir = 17],
    [BaseImage EXCEPT !.optsz = 0, !.ndir = 0, !.trail = 12],
    [BaseImage EXCEPT !.optsz = optHdr32Size + 2 * dataDirSize, !.ndir = 2],
    [BaseImage EXCEPT !.resv = 5] }

Sources == { Image(p) : p \in SoundImages \cup CutImages \cup BadImages }

----------------------------------------------------------------------------
(* The state machine: a File over one source, and the calls made on it.    *)

Accessors == {"DOSHeader", "FileHeader", "OptHeader", "SectHeaders", "Overlay"}

\* func New(r ReadAtSeeker) (file *File, err error): &File{r: r}.  The
\* reader is an *os.File (a zero-length ReadAt at the end of the file
\* succeeds) or a bytes.Reader (it reports io.EOF).
Init ==
  /\ src \in Sources
  /\ emptyReadEOF \in BOOLEAN
  /\ doshdr = None
  /\ fileHdr = None
  /\ opthdr = None
  /\ sectHdrs = None
  /\ overlay = None
  /\ last = [op |-> "New", arg |-> None, err |-> FALSE, panicked |-> FALSE,
             val |-> None, reads |-> {}, nread |-> 0, nseek |-> 0,
             parsed |-> {}, nwarn |-> 0, tried |-> <<>>,
             prior |-> None, priorFailed |-> FALSE]
  /\ succ = [a \in Accessors |-> None]
  /\ failed = {}
  /\ twin = None
  /\ calc = None
  /\ race = None

\* the call op(arg) has ended as r says: the File keeps the fields the call
\* left, last describes the call, succ remembers the first value each
\* accessor returned without error and failed the accessors that returned
\* an error.  A panic ends the program.
CommitFile(op, arg, r) ==
  /\ ~last.panicked
  /\ doshdr' = r.file.doshdr
  /\ fileHdr' = r.file.fileHdr
  /\ opthdr' = r.file.opthdr
  /\ sectHdrs' = r.file.sectHdrs
  /\ overlay' = r.file.overlay
  /\ last' = [op |-> op, arg |-> arg, err |-> r.err, panicked |-> r.panicked,
              val |-> r.val, reads |-> r.file.reads, nread |-> r.file.nread,
              nseek |-> r.file.nseek,
              parsed |-> r.file.parsed, nwarn |-> r.file.nwarn,
              tried |-> r.file.tried,
              prior |-> IF op \in Accessors THEN succ[op] ELSE None,
              priorFailed |-> op \in failed]
  /\ succ' = IF op \in Accessors /\ ~r.err /\ ~r.panicked /\ succ[op] = None
             THEN [succ EXCEPT ![op] = Some(r.val)]
             ELSE succ
  /\ failed' = IF r.err /\ op \in Accessors THEN failed \cup {op} ELSE failed
  /\ UNCHANGED <<src, emptyReadEOF>>

\* a call on the File, which is the only File there is
Commit(op, arg, r) ==
  CommitFile(op, arg, r) /\ UNCHANGED <<twin, calc, race>>

CallParse == Commit("Parse", None, Parse(CurFile))

CallDOSHeader == Commit("DOSHeader", None, DOSHeader(CurFile))

CallFileHeader == Commit("FileHeader", None, FileHeader(CurFile))

CallOptHeader == Commit("OptHeader", None, OptHeader(CurFile))

CallSectHeaders == Commit("SectHeaders", None, SectHeaders(CurFile))

CallOverlay == Commit("Overlay", None, Overlay(CurFile))

CallDOSStub == Commit("DOSStub", None, DOSStub(CurFile))

\* the section headers a caller passes to Section: those the File returned,
\* and headers of its own making
SectArgs ==
  (IF sectHdrs = None THEN {}
   ELSE { sectHdrs[1][i][1] :
            i \in { j \in 1..Len(sectHdrs[1]) : sectHdrs[1][j] # None } })
  \cup { DecodeSectHeader(SectHdrBytes(1, e.off, e.size)) :
           e \in { [off |-> FromInt(0), size |-> FromInt(0)],
                   [off |-> FromInt(dosHdrSize - 4), size |-> FromInt(4)],
                   [off |-> MaxU32, size |-> MaxU32] } }

CallSection == \E h \in SectArgs : Commit("Section", Some(h), Section(CurFile, h))

Next ==
  \/ CallParse
  \/ CallDOSHeader
  \/ CallFileHeader
  \/ CallOptHeader
  \/ CallSectHeaders
  \/ CallOverlay
  \/ CallDOSStub
  \/ CallSection

Spec == Init /\ [][Next]_vars

----------------------------------------------------------------------------
(* The pure functions of the package: ParseFPOData and the String methods  *)
(* of the flag types.  calc holds the last call: its name, its argument    *)
(* and its result.                                                         *)

\* a & b on operands of n bits
RECURSIVE BitAnd(_, _, _)
BitAnd(a, b, n) ==
  IF n = 0 THEN 0
  ELSE (a % 2) * (b % 2) + 2 * BitAnd(a \div 2, b \div 2, n - 1)

\* a >> n
Shr(a, n) == a \div 2^n

\* a * k in uint64, for a 32-bit a and a small k: the product is below 2^64
MulU64(a, k) == Norm(a.hi * k, a.lo * k)

\* a * k in uint32
MulU32(a, k) == Wrap32(Norm(a.hi * k, a.lo * k))

FrameTypeFPO == 0

FrameTypeNonFPO == 3

FrameTypeTrap == 1

FrameTypeTSS == 2

\* ParseFPOData with the number of locals scaled in 32 bits:
\* uint64(raw.NLocals * 4)
ParseFPODataNarrow(raw) ==
  [ OffsetStart |-> raw.OffsetStart,
    FuncSize    |-> raw.FuncSize,
    NLocals     |-> MulU32(raw.NLocals, 4),
    Params      |-> MulU32(FromInt(raw.Params), 4),
    Prolog      |-> raw.Prolog,
    Regs        |-> BitAnd(raw.Bitfield, 7, 8),
    HasSEH      |-> BitAnd(raw.Bitfield, 8, 8) # 0,
    UseBP       |-> BitAnd(raw.Bitfield, 16, 8) # 0,
    Reserved    |-> Shr(BitAnd(raw.Bitfield, 32, 8), 5),
    Frame       |-> Shr(BitAnd(raw.Bitfield, 192, 8), 6) ]

\* func ParseFPOData(raw FPODataRaw) FPOData; & and >> have the same
\* precedence in Go and associate to the left
ParseFPOData(raw) ==
  [ OffsetStart |-> raw.OffsetStart,
    FuncSize    |-> raw.FuncSize,
    NLocals     |-> MulU64(raw.NLocals, 4),
    Params      |-> MulU32(FromInt(raw.Params), 4),
    Prolog      |-> raw.Prolog,
    Regs        |-> BitAnd(raw.Bitfield, 7, 8),
    HasSEH      |-> BitAnd(raw.Bitfield, 8, 8) # 0,
    UseBP       |-> BitAnd(raw.Bitfield, 16, 8) # 0,
    Reserved    |-> Shr(BitAnd(raw.Bitfield, 32, 8), 5),
    Frame       |-> Shr(BitAnd(raw.Bitfield, 192, 8), 6) ]

\* The string a String method returns is kept as the list of its parts
\* between the separators "|".  A part is a fixed text, or a format with the
\* number printed into it.
Named(s) == [text |-> s, arg |-> None]

Formatted(s, n) == [text |-> s, arg |-> Some(n)]

\* strings.Join(ss, "|"), and "none" for no part
Join(ss) == IF ss = <<>> THEN <<Named("none")>> ELSE ss

\* var flagName = map[Flag]string{...}; the constants are 1 << iota with two
\* obsolete positions skipped
flagName ==
  (1 :> "no reloc") @@ (2 :> "executable") @@ (4 :> "no line numbers")
    @@ (8 :> "no symbol table") @@ (32 :> "large addresses")
    @@ (128 :> "32-bit") @@ (256 :> "no debug")
    @@ (512 :> "USB copy to swap") @@ (1024 :> "NET copy to swap")
    @@ (2048 :> "system file") @@ (4096 :> "DLL")
    @@ (8192 :> "uniprocessor")

\* var dllFlagName = map[DLLFlag]string{...}
dllFlagName ==
  (64 :> "dynamic base") @@ (128 :> "force integrity") @@ (256 :> "can DEP")
    @@ (512 :> "no isolation") @@ (1024 :> "no SEH") @@ (2048 :> "no bind")
    @@ (8192 :> "WDM driver") @@ (32768 :> "can RDS")

\* the loop of Flag.String and of DLLFlag.String from bit i on, over the map
\* name
RECURSIVE flagLoop(_, _, _, _)
flagLoop(flags, name, ss, i) ==
  IF i = 16 THEN ss
  ELSE IF BitAnd(flags, 2^i, 16) # 0
  THEN flagLoop(flags - 2^i, name,
                Append(ss, IF 2^i \in DOMAIN name
                           THEN Named(name[2^i])
                           ELSE Formatted("unknown flag: 0x%04X", FromInt(2^i))),
                i + 1)
  ELSE flagLoop(flags, name, ss, i + 1)

\* func (flags Flag) String() string
FlagString(flags) == Join(flagLoop(flags, flagName, <<>>, 0))

\* func (flags DLLFlag) String() string
DLLFlagString(flags) == Join(flagLoop(flags, dllFlagName, <<>>, 0))

\* SectFlag(1 << i)
SectFlagBit(i) ==
  IF i < 16 THEN [hi |-> 0, lo |-> 2^i] ELSE [hi |-> 2^(i - 16), lo |-> 0]

\* a & b and a &^ b on uint32 operands
And32(a, b) ==
  [hi |-> BitAnd(a.hi, b.hi, 16), lo |-> BitAnd(a.lo, b.lo, 16)]

AndNot32(a, b) ==
  [hi |-> a.hi - BitAnd(a.hi, b.hi, 16), lo |-> a.lo - BitAnd(a.lo, b.lo, 16)]

\* SectFlagObjAlign1 = 0x00100000 ... SectFlagObjAlign8192 = 0x00E00000: the
\* k-th constant is k << 20 and stands for an alignment of 2^(k-1) bytes
SectFlagObjAlign(k) == [hi |-> 16 * k, lo |-> 0]

SectFlagObjAlign1 == SectFlagObjAlign(1)

SectFlagObjAlign8192 == SectFlagObjAlign(14)

\* mask >= SectFlagObjAlign1 && mask <= SectFlagObjAlign8192
InAlignRange(a) ==
  ~Less(a, SectFlagObjAlign1) /\ ~Less(SectFlagObjAlign8192, a)

\* a switch that yields the code in the alignment field, not the alignment
sectAlignCode(flags) ==
  IF \E k \in 1..14 : flags = SectFlagObjAlign(k)
  THEN CHOOSE k \in 1..14 : flags = SectFlagObjAlign(k)
  ELSE 0

\* the switch of SectFlag.String: the alignment flags stands for, 0 if none
sectAlign(flags) ==
  IF \E k \in 1..14 : flags = SectFlagObjAlign(k)
  THEN 2^((CHOOSE k \in 1..14 : flags = SectFlagObjAlign(k)) - 1)
  ELSE 0

\* var sectFlagName = map[SectFlag]string{...}
sectFlagName ==
  (SectFlagBit(5) :> "code") @@ (SectFlagBit(6) :> "data")
    @@ (SectFlagBit(7) :> "bss") @@ (SectFlagBit(9) :> "link info")
    @@ (SectFlagBit(11) :> "link remove") @@ (SectFlagBit(12) :> "link COMDAT")
    @@ (SectFlagBit(14) :> "defer speculative exceptions")
    @@ (SectFlagBit(15) :> "global pointer reference")
    @@ (SectFlagBit(24) :> "relocs overflow")
    @@ (SectFlagBit(25) :> "mem discard") @@ (SectFlagBit(26) :> "mem no cache")
    @@ (SectFlagBit(27) :> "mem no page") @@ (SectFlagBit(28) :> "mem shared")
    @@ (SectFlagBit(29) :> "mem exec") @@ (SectFlagBit(30) :> "mem read")
    @@ (SectFlagBit(31) :> "mem write")

\* the loop of SectFlag.String from bit i on: the flags left and the parts
RECURSIVE sectFlagLoop(_, _, _)
sectFlagLoop(flags, ss, i) ==
  IF i = 32 THEN [flags |-> flags, ss |-> ss]
  ELSE IF InAlignRange(SectFlagBit(i)) THEN sectFlagLoop(flags, ss, i + 1)
  ELSE IF And32(flags, SectFlagBit(i)) # FromInt(0)
  THEN sectFlagLoop(AndNot32(flags, SectFlagBit(i)),
                    Append(ss, IF SectFlagBit(i) \in DOMAIN sectFlagName
                               THEN Named(sectFlagName[SectFlagBit(i)])
                               ELSE Formatted("unknown flag: 0x%08X",
                                              SectFlagBit(i))),
                    i + 1)
  ELSE sectFlagLoop(flags, ss, i + 1)

\* SectFlag.String behind its loop: the alignment is treated as a value
sectFlagAlign(l) ==
  IF InAlignRange(l.flags)
  THEN Append(l.ss, IF sectAlign(l.flags) = 0
                    THEN Formatted("unknown align flag: 0x%08X", l.flags)
                    ELSE Formatted("align %d", FromInt(sectAlign(l.flags))))
  ELSE l.ss

\* func (flags SectFlag) String() string
SectFlagString(flags) == Join(sectFlagAlign(sectFlagLoop(flags, <<>>, 0)))

\* the raw FPO records explored: every Bitfield byte, the ends and the
\* middle of the range of NLocals and of Params
FPORaws ==
  [ OffsetStart : {FromInt(0), MaxU32},
    FuncSize    : {FromInt(7)},
    NLocals     : {FromInt(0), FromInt(1), [hi |-> B16 \div 4, lo |-> 0], MaxU32},
    Params      : {0, 1, B16 - 1},
    Prolog      : {0, 2^8 - 1},
    Bitfield    : 0..(2^8 - 1) ]

\* the 16-bit flag words explored: no bit, one bit, two bits and all bits set
FlagWords ==
  {0, B16 - 1} \cup { 2^i : i \in 0..15 }
    \cup { 2^i + 2^j : i \in 0..14, j \in 1..15 }

\* the 32-bit section flag words explored: every value of the alignment
\* field (bits 20-23) with known and unknown flags below and above it
SectFlagWords ==
  { [hi |-> 256 * h + 16 * a + x, lo |-> l] :
      a \in 0..15, h \in {0, 1, 128, 255}, x \in {0, 1, 8},
      l \in {0, 1, 32, B16 - 1} }

\* the calls explored: a function and its argument
FnCalls ==
  { [op |-> "ParseFPOData", arg |-> raw] : raw \in FPORaws }
    \cup { [op |-> "Flag.String", arg |-> flags] : flags \in FlagWords }
    \cup { [op |-> "DLLFlag.String", arg |-> flags] : flags \in FlagWords }
    \cup { [op |-> "SectFlag.String", arg |-> flags] : flags \in SectFlagWords }

\* a call is about to be made; the File of the other specification is unused
InitFn ==
  /\ src = <<>>
  /\ emptyReadEOF = FALSE
  /\ doshdr = None
  /\ fileHdr = None
  /\ opthdr = None
  /\ sectHdrs = None
  /\ overlay = None
  /\ last = [op |-> "New", arg |-> None, err |-> FALSE, panicked |-> FALSE,
             val |-> None, reads |-> {}, nread |-> 0, nseek |-> 0,
             parsed |-> {}, nwarn |-> 0, tried |-> <<>>,
             prior |-> None, priorFailed |-> FALSE]
  /\ succ = [a \in Accessors |-> None]
  /\ failed = {}
  /\ twin = None
  /\ \E c \in FnCalls : calc = [op |-> c.op, arg |-> c.arg, done |-> FALSE,
                                 val |-> None]
  /\ race = None

\* the pending call of op returns val
Returned(op, val) ==
  /\ calc.op = op /\ ~calc.done
  /\ calc' = [calc EXCEPT !.done = TRUE, !.val = val]
  /\ UNCHANGED <<fileVars, twin, race>>

CallParseFPOData == Returned("ParseFPOData", ParseFPOData(calc.arg))

CallFlagString == Returned("Flag.String", FlagString(calc.arg))

CallDLLFlagString == Returned("DLLFlag.String", DLLFlagString(calc.arg))

CallSectFlagString == Returned("SectFlag.String", SectFlagString(calc.arg))

NextFn ==
  \/ CallParseFPOData
  \/ CallFlagString
  \/ CallDLLFlagString
  \/ CallSectFlagString

SpecFn == InitFn /\ [][NextFn]_vars

----------------------------------------------------------------------------
(* Two Files over two sources that differ only in reserved fields, called  *)
(* in lockstep: the File of the variables above over src, and the File     *)
(* twin over twin.r.                                                       *)

\* the twin File, at the start of a call
TwinFile ==
  [ r |-> twin.r,
    doshdr |-> twin.doshdr, fileHdr |-> twin.fileHdr, opthdr |-> twin.opthdr,
    sectHdrs |-> twin.sectHdrs, overlay |-> twin.overlay,
    reads |-> {}, nread |-> 0, nseek |-> 0, parsed |-> {}, nwarn |-> 0,
    tried |-> <<>> ]

\* offsets of the bytes of Res and Res2 in a DOS header: behind the
\* signature and 13 words, and behind OEMID and OEMInfo
DOSResvOffsets ==
  ((dosHdrSize - 36)..(dosHdrSize - 29)) \cup ((dosHdrSize - 24)..(dosHdrSize - 5))

\* offsets of the bytes of Res in the optional header of the source s, if s
\* holds a file header that declares an optional header with that field
OptResvOffsets(s) ==
  IF /\ Len(s) >= dosHdrSize
     /\ LE32(s, dosHdrSize - 4).hi = 0
     /\ LE32(s, dosHdrSize - 4).lo >= dosHdrSize
     /\ Len(s) >= LE32(s, dosHdrSize - 4).lo + fileHdrSize
     /\ LE16(s, LE32(s, dosHdrSize - 4).lo + fileHdrSize - 4) >= optHdr32Size
  THEN (LE32(s, dosHdrSize - 4).lo + fileHdrSize + 52)
         ..(LE32(s, dosHdrSize - 4).lo + fileHdrSize + 55)
  ELSE {}

\* the source s with the bytes at the offsets offs set to 7
Patch(s, offs) == [i \in 1..Len(s) |-> IF i - 1 \in offs THEN 7 ELSE s[i]]

\* the sources that differ from s in reserved fields only: in one reserved
\* word of the DOS header, in the reserved field of the optional header, and
\* in all reserved fields
TwinsOf(s) ==
  { Patch(s, offs) :
      offs \in { {dosHdrSize - 36, dosHdrSize - 35}, OptResvOffsets(s),
                 DOSResvOffsets \cup OptResvOffsets(s) } }
    \ {s}

\* the images the twins are made of: the base image, whole and cut inside
\* the DOS header, the optional header and the data directories; images
\* without sections; an image with too many data directories; an image
\* without optional header
TwinImages ==
  { BaseImage,
    [BaseImage EXCEPT !.cut = dosHdrSize - 24],
    [BaseImage EXCEPT !.cut = BaseImage.place + fileHdrSize + 50],
    [BaseImage EXCEPT !.cut = BaseImage.place + fileHdrSize + optHdr32Size + 4],
    [BaseImage EXCEPT !.optsz = maxOptHdrSize, !.ndir = 17],
    [BaseImage EXCEPT !.optsz = 0, !.ndir = 0, !.trail = 12],
    SoundImage(0, 1, "inside", 0, 0),
    SoundImage(1, 0, "wrap", optHdr32Size + dataDirSize, 1) }

\* a source whose PEHdrOffset points into the DOS header: the signature
\* "PE\0\0" lies at offset 24, and the file header behind it, at offsets
\* 28 to 47, is made of the bytes of Res, OEMID, OEMInfo and Res2
TinyImage ==
  [ i \in 1..Len(Image(BaseImage)) |->
      IF i - 1 \in (dosHdrSize - 40)..(dosHdrSize - 37)
        THEN Bytes32(pe)[i - (dosHdrSize - 40)]
      ELSE Image([BaseImage EXCEPT !.peoff = FromInt(dosHdrSize - 40)])[i] ]

\* the pairs of sources of the two Files: an image and one of its twins, and
\* the tiny image with its twin in the first reserved word
TwinPairs ==
  UNION { { <<Image(p), t>> : t \in TwinsOf(Image(p)) } : p \in TwinImages }
    \cup { <<TinyImage, Patch(TinyImage, {dosHdrSize - 36, dosHdrSize - 35})>> }

\* two Files over a source and one of its twins, no call made yet
InitTwin ==
  /\ src \in { pr[1] : pr \in TwinPairs }
  /\ emptyReadEOF \in BOOLEAN
  /\ doshdr = None
  /\ fileHdr = None
  /\ opthdr = None
  /\ sectHdrs = None
  /\ overlay = None
  /\ last = [op |-> "New", arg |-> None, err |-> FALSE, panicked |-> FALSE,
             val |-> None, reads |-> {}, nread |-> 0, nseek |-> 0,
             parsed |-> {}, nwarn |-> 0, tried |-> <<>>,
             prior |-> None, priorFailed |-> FALSE]
  /\ succ = [a \in Accessors |-> None]
  /\ failed = {}
  /\ \E t \in { pr[2] : pr \in { q \in TwinPairs : q[1] = src } } :
       twin = [ r |-> t, doshdr |-> None, fileHdr |-> None, opthdr |-> None,
                sectHdrs |-> None, overlay |-> None,
                last |-> [err |-> FALSE, panicked |-> FALSE, val |-> None,
                          reads |-> {}, nread |-> 0, nseek |-> 0,
                          parsed |-> {}, nwarn |-> 0] ]
  /\ calc = None
  /\ race = None

\* the call op(arg) has ended as r says on the File and as t says on the
\* twin File
CommitBoth(op, arg, r, t) ==
  /\ ~twin.last.panicked
  /\ CommitFile(op, arg, r)
  /\ twin' = [ r |-> twin.r,
               doshdr |-> t.file.doshdr, fileHdr |-> t.file.fileHdr,
               opthdr |-> t.file.opthdr, sectHdrs |-> t.file.sectHdrs,
               overlay |-> t.file.overlay,
               last |-> [err |-> t.err, panicked |-> t.panicked,
                         val |-> t.val, reads |-> t.file.reads,
                         nread |-> t.file.nread, nseek |-> t.file.nseek,
                         parsed |-> t.file.parsed, nwarn |-> t.file.nwarn] ]
  /\ UNCHANGED <<calc, race>>

BothParse == CommitBoth("Parse", None, Parse(CurFile), Parse(TwinFile))

BothDOSHeader ==
  CommitBoth("DOSHeader", None, DOSHeader(CurFile), DOSHeader(TwinFile))

BothFileHeader ==
  CommitBoth("FileHeader", None, FileHeader(CurFile), FileHeader(TwinFile))

BothOptHeader ==
  CommitBoth("OptHeader", None, OptHeader(CurFile), OptHeader(TwinFile))

BothSectHeaders ==
  CommitBoth("SectHeaders", None, SectHeaders(CurFile), SectHeaders(TwinFile))

BothOverlay ==
  CommitBoth("Overlay", None, Overlay(CurFile), Overlay(TwinFile))

BothDOSStub ==
  CommitBoth("DOSStub", None, DOSStub(CurFile), DOSStub(TwinFile))

\* the section headers a caller passes to Section on both Files: those the
\* File returned, and a header of its own making over the first reserved
\* words of the DOS header
TwinSectArgs ==
  (IF sectHdrs = None THEN {}
   ELSE { sectHdrs[1][i][1] :
            i \in { j \in 1..Len(sectHdrs[1]) : sectHdrs[1][j] # None } })
  \cup { DecodeSectHeader(SectHdrBytes(1, FromInt(dosHdrSize - 36), FromInt(4))) }

BothSection ==
  \E h \in TwinSectArgs :
    CommitBoth("Section", Some(h), Section(CurFile, h), Section(TwinFile, h))

NextTwin ==
  \/ BothParse
  \/ BothDOSHeader
  \/ BothFileHeader
  \/ BothOptHeader
  \/ BothSectHeaders
  \/ BothOverlay
  \/ BothDOSStub
  \/ BothSection

SpecTwin == InitTwin /\ [][NextTwin]_vars

----------------------------------------------------------------------------
(* Two threads that call DOSHeader on one File.  Nothing orders the loads  *)
(* and stores of file.doshdr of different threads: a load yields the       *)
(* pointer of any store the thread has not yet seen a later one of.        *)
(* race.heap lists the DOSHeader objects in the order in which they were   *)
(* stored to file.doshdr; the pointer to object k is k, nil is 0.  The     *)
(* fields of an object that another thread has filled are loaded without   *)
(* order too: a thread finds them filled or still zero, until it has       *)
(* filled them itself.  The variable doshdr shows what the pointer stored  *)
(* last points to.                                                         *)

Threads == 1..2

\* number of calls each thread makes
MaxCalls == 2

\* the pointers a load of file.doshdr by thread t may yield
Loads(t) == race.idx[t]..Len(race.heap)

\* DOSHeader has always parsed: a test of the cache that never finds a header
CacheMiss(k) == TRUE

\* file.doshdr == nil, for the pointer k loaded
IsNil(k) == k = 0

\* a File over a source, and two threads that have not called yet; the
\* sources are the base image, whole, cut inside the DOS header and with a
\* wrong signature
InitRace ==
  /\ src \in { Image(BaseImage),
                Image([BaseImage EXCEPT !.cut = dosHdrSize - 24]),
                Image([BaseImage EXCEPT !.isMZ = FALSE]) }
  /\ emptyReadEOF = FALSE
  /\ doshdr = None
  /\ fileHdr = None
  /\ opthdr = None
  /\ sectHdrs = None
  /\ overlay = None
  /\ last = [op |-> "New", arg |-> None, err |-> FALSE, panicked |-> FALSE,
             val |-> None, reads |-> {}, nread |-> 0, nseek |-> 0,
             parsed |-> {}, nwarn |-> 0, tried |-> <<>>,
             prior |-> None, priorFailed |-> FALSE]
  /\ succ = [a \in Accessors |-> None]
  /\ failed = {}
  /\ twin = None
  /\ calc = None
  /\ race = [ pc     |-> [t \in Threads |-> "idle"],
              calls  |-> [t \in Threads |-> 0],
              idx    |-> [t \in Threads |-> 0],
              res    |-> [t \in Threads |-> None],
              heap   |-> <<>>,
              nmagic |-> 0,
              nbody  |-> 0 ]

\* the step of a thread has changed race to next; doshdr is what the
\* pointer stored last points to
RaceStep(next) ==
  /\ race' = next
  /\ doshdr' = IF next.heap = <<>> THEN None
                ELSE Some(next.heap[Len(next.heap)].val)
  /\ UNCHANGED <<src, emptyReadEOF, fileHdr, opthdr, sectHdrs, overlay,
                 last, succ, failed, twin, calc>>

\* the call of thread t returns an error
Fails(t) ==
  [race EXCEPT !.pc[t] = "idle",
               !.res[t] = Some([err |-> TRUE, obj |-> 0, by |-> 0,
                                val |-> None])]

\* thread t calls file.DOSHeader()
Enter(t) ==
  /\ race.pc[t] = "idle"
  /\ race.calls[t] < MaxCalls
  /\ RaceStep([race EXCEPT !.pc[t] = "check", !.calls[t] = @ + 1,
                           !.res[t] = None])

\* if file.doshdr == nil
Check(t) ==
  /\ race.pc[t] = "check"
  /\ \E k \in Loads(t) :
       RaceStep([race EXCEPT !.idx[t] = k,
                             !.pc[t] = IF IsNil(k) THEN "magic" ELSE "return"])

\* parseDOSHeader, the signature: binary.Read(sr, ..., &magic) and the
\* comparison with mz
Magic(t) ==
  /\ race.pc[t] = "magic"
  /\ LET r1 == ReadFull(CurFile, FromInt(0), 0, dosHdrSize, 2)
     IN  IF ~r1.ok \/ LE16(r1.data, 0) # mz
         THEN RaceStep([Fails(t) EXCEPT !.nmagic = @ + 1])
         ELSE RaceStep([race EXCEPT !.pc[t] = "alloc", !.nmagic = @ + 1])

\* file.doshdr = new(DOSHeader)
Alloc(t) ==
  /\ race.pc[t] = "alloc"
  /\ RaceStep([race EXCEPT
                 !.heap = Append(@, [by |-> t, val |-> ZeroDOSHeader,
                                     filled |-> {}]),
                 !.idx[t] = Len(race.heap) + 1,
                 !.pc[t] = "body"])

\* binary.Read(sr, binary.LittleEndian, file.doshdr), the body read into
\* the object the pointer k, just loaded, points to; the loops over Res and
\* Res2 behind it change nothing
Body(t) ==
  /\ race.pc[t] = "body"
  /\ \E k \in Loads(t) :
       LET r2 == ReadFull(CurFile, FromInt(0), 2, dosHdrSize, dosHdrBodySize)
       IN  IF ~r2.ok
           THEN RaceStep([Fails(t) EXCEPT !.idx[t] = k, !.nbody = @ + 1])
           ELSE RaceStep([race EXCEPT
                            !.heap[k].val = DecodeDOSHeader(r2.data),
                            !.heap[k].filled = @ \cup {t},
                            !.idx[t] = k,
                            !.pc[t] = "return",
                            !.nbody = @ + 1])

\* return file.doshdr, nil: the call returns the pointer k, and the caller
\* finds v in the object it points to, which is what was stored there or,
\* until the thread has filled the object itself, still zero
Return(t) ==
  /\ race.pc[t] = "return"
  /\ \E k \in Loads(t) :
       \E v \in {race.heap[k].val}
                 \cup (IF t \in race.heap[k].filled THEN {}
                       ELSE {ZeroDOSHeader}) :
         RaceStep([race EXCEPT
                     !.pc[t] = "idle",
                     !.idx[t] = k,
                     !.res[t] = Some([err |-> FALSE, obj |-> k,
                                      by |-> race.heap[k].by,
                                      val |-> Some(v)])])

NextRace ==
  \/ \E t \in Threads : Enter(t)
  \/ \E t \in Threads : Check(t)
  \/ \E t \in Threads : Magic(t)
  \/ \E t \in Threads : Alloc(t)
  \/ \E t \in Threads : Body(t)
  \/ \E t \in Threads : Return(t)

SpecRace == InitRace /\ [][NextRace]_vars

----------------------------------------------------------------------------
(* What the source itself holds, read off its bytes.                       *)

\* the first two bytes are 4D 5A
SrcIsMZ == Len(src) >= 2 /\ LE16(src, 0) = mz

\* the source holds a whole DOS header
SrcHasDOSHeader == SrcIsMZ /\ Len(src) >= dosHdrSize

\* PEHdrOffset, the last field of the DOS header
SrcPEHdrOffset == LE32(src, dosHdrSize - 4)

\* the 4 bytes at PEHdrOffset are 50 45 00 00
SrcIsPE == SrcHasDOSHeader /\ ReadAtBytes(SrcPEHdrOffset, 4) = <<80, 69, 0, 0>>

\* the source holds a whole file header behind a sound PE signature
SrcHasFileHeader ==
  SrcIsPE /\ Len(ReadAtBytes(SrcPEHdrOffset, fileHdrSize)) = fileHdrSize

\* the file header the source holds
SrcFileHeader ==
  DecodeFileHeader(SubSeq(ReadAtBytes(SrcPEHdrOffset, fileHdrSize),
                          fileHdrSize - fileHdrBodySize + 1, fileHdrSize))

\* offset of the section header table: PEHdrOffset + 24 + OptHdrSize
SrcSectHdrsOff ==
  Add(SrcPEHdrOffset, FromInt(fileHdrSize + SrcFileHeader.OptHdrSize))

\* the source bytes from offset start (a 64-bit integer) to the end
SrcFrom(start) ==
  IF start.hi # 0 \/ start.lo >= Len(src) THEN <<>>
  ELSE SubSeq(src, start.lo + 1, Len(src))

\* the cached field an accessor answers from
CacheOf(op) ==
  CASE op = "DOSHeader"   -> doshdr
    [] op = "FileHeader"  -> fileHdr
    [] op = "OptHeader"   -> opthdr
    [] op = "SectHeaders" -> sectHdrs
    [] op = "Overlay"     -> overlay

\* the last call returned to its caller, and returned a nil error
ReturnedOK == ~last.err /\ ~last.panicked

\* the largest sum Offset + Size over the headers hdrs (none of them nil),
\* as an integer that does not wrap; 0 for no header
RECURSIVE TrueExtent(_)
TrueExtent(hdrs) ==
  IF hdrs = <<>> THEN FromInt(0)
  ELSE Max64(Add(Head(hdrs)[1].Offset, Head(hdrs)[1].Size),
             TrueExtent(Tail(hdrs)))

\* no sum Offset + Size of the headers hdrs exceeds 32 bits
RECURSIVE SumsFit32(_)
SumsFit32(hdrs) ==
  hdrs = <<>> \/ ( /\ Add(Head(hdrs)[1].Offset, Head(hdrs)[1].Size).hi < B16
                   /\ SumsFit32(Tail(hdrs)) )

\* the section headers are cached and no entry of the list is nil
SectHdrsWhole ==
  sectHdrs # None /\ \A i \in 1..Len(sectHdrs[1]) : sectHdrs[1][i] # None

----------------------------------------------------------------------------
(* Claims.                                                                 *)

\* C1: when DOSHeader, FileHeader, OptHeader or SectHeaders returns an error,
\* the File holds no cached value for that header afterwards, and a call of
\* an accessor that has returned an error before returns an error again.
C1_FailureIsNotCached ==
  last.op \in {"DOSHeader", "FileHeader", "OptHeader", "SectHeaders"} =>
    /\ last.err => CacheOf(last.op) = None
    /\ last.priorFailed => last.err

\* C2: on a source whose 4 bytes at PEHdrOffset are not 50 45 00 00, no call
\* of FileHeader, OptHeader, SectHeaders, Overlay or Parse returns without
\* error.
C2_PESignatureGuardsAll ==
  ( /\ SrcHasDOSHeader /\ ~SrcIsPE
    /\ last.op \in {"FileHeader", "OptHeader", "SectHeaders", "Overlay", "Parse"} )
    => ~ReturnedOK

\* C3: on a source whose first two bytes are not 4D 5A every cached header of
\* the File stays unset, and DOSHeader, FileHeader, OptHeader, SectHeaders,
\* Overlay, DOSStub and Parse each return an error, having read no byte
\* outside the first 64 bytes of the source.
C3_BadMZFailsAll ==
  ~SrcIsMZ =>
    /\ doshdr = None /\ fileHdr = None /\ opthdr = None
    /\ sectHdrs = None /\ overlay = None
    /\ last.op \in {"DOSHeader", "FileHeader", "OptHeader", "SectHeaders",
                    "Overlay", "DOSStub", "Parse"} =>
         /\ last.err /\ ~last.panicked
         /\ last.reads \subseteq 0..(dosHdrSize - 1)
         /\ last.nseek = 0

\* C3 witness: Overlay has failed on a source longer than a DOS header whose
\* signature is wrong, after reading the signature bytes.
C3_Witness ==
  /\ ~SrcIsMZ /\ Len(src) > dosHdrSize
  /\ last.op = "Overlay" /\ last.err /\ last.reads = {0, 1}

\* C4: no call panics.
C4_NoCallPanics == ~last.panicked

\* C5: once an accessor has returned without error, every later call of the
\* same accessor returns without error the same value, and issues no read and
\* no seek on the byte source.
C5_CachedAccessorRepeats ==
  (last.op \in Accessors /\ last.prior # None) =>
    /\ ReturnedOK
    /\ last.val = last.prior[1]
    /\ last.nread = 0 /\ last.nseek = 0

\* C5 witness: Overlay is called again after it returned a non-empty overlay,
\* with other calls in between (Parse has read the source since).
C5_Witness ==
  /\ last.op = "Overlay" /\ last.prior # None
  /\ last.val # None /\ Len(last.val[1]) > 0
  /\ succ["OptHeader"] # None

\* C6: on a source whose file header declares OptHdrSize = 0, a call of
\* OptHeader that returns without error returns no structure, and none is
\* cached.
C6_NoOptHeaderWhenSizeZero ==
  ( /\ SrcHasFileHeader /\ SrcFileHeader.OptHdrSize = 0
    /\ last.op = "OptHeader" /\ ReturnedOK )
    => last.val = None /\ opthdr = None

\* C7: when SectHeaders returns without error, the list has NSection entries
\* and entry i is decoded from the 40 source bytes at
\* PEHdrOffset + 24 + OptHdrSize + 40 * i (NSection and OptHdrSize as the
\* source's file header declares them).
C7_SectHeadersAsOnDisk ==
  (SrcHasFileHeader /\ last.op = "SectHeaders" /\ ReturnedOK) =>
    /\ last.val # None
    /\ Len(last.val[1]) = SrcFileHeader.NSection
    /\ \A i \in 1..SrcFileHeader.NSection :
         LET d == ReadAtBytes(Add(SrcSectHdrsOff, FromInt(sectHdrSize * (i - 1))),
                              sectHdrSize)
         IN  /\ Len(d) = sectHdrSize
             /\ last.val[1][i] = Some(DecodeSectHeader(d))

\* C8: when Overlay returns without error, it returns the source bytes from S
\* to the end, S being the largest sum Offset + Size over the section
\* headers, taken as an integer that does not wrap (0 without sections).
C8_OverlayFromTrueExtent ==
  (last.op = "Overlay" /\ ReturnedOK) =>
    /\ SectHdrsWhole
    /\ last.val = Some(SrcFrom(TrueExtent(sectHdrs[1])))

\* C9: when the section headers parse and the largest sum Offset + Size is at
\* least the length of the source, Overlay returns an empty overlay and no
\* error (stated for headers whose sums fit 32 bits; C8 is about the others).
C9_EmptyOverlayPastEnd ==
  ( /\ last.op = "Overlay" /\ SectHdrsWhole /\ SumsFit32(sectHdrs[1])
    /\ ~Less(TrueExtent(sectHdrs[1]), FromInt(Len(src))) )
    => ReturnedOK /\ last.val = Some(<<>>)

\* C10: Section(h) returns an error, or exactly h.Size bytes, the source
\* bytes from h.Offset on.
C10_SectionExactOrError ==
  last.op = "Section" =>
    \/ last.err
    \/ /\ last.arg[1].Size.hi = 0
       /\ Len(last.val[1]) = last.arg[1].Size.lo
       /\ last.val[1] = ReadAtBytes(last.arg[1].Offset, last.arg[1].Size.lo)

\* offset of the optional header: PEHdrOffset + 24
SrcOptOff == Add(SrcPEHdrOffset, FromInt(fileHdrSize))

\* n data directories fit in the bytes the source holds behind the 96-byte
\* fixed part of the optional header
DirsFitSource(n) ==
  /\ n.hi = 0
  /\ dataDirSize * n.lo <= Len(SrcFrom(Add(SrcOptOff, FromInt(optHdr32Size))))

\* n data directories fit in the optional-header region the file header
\* declares
DirsFitRegion(n) ==
  /\ SrcHasFileHeader
  /\ n.hi = 0
  /\ optHdr32Size + dataDirSize * n.lo <= SrcFileHeader.OptHdrSize

\* C11: the DataDirs slice the File holds was never made with more entries
\* than fit in the rest of the source or in the declared optional-header
\* region: a count that fits neither is rejected before the slice is made.
C11_NoOversizedDataDirs ==
  (SrcHasDOSHeader /\ opthdr # None /\ opthdr[1].DataDirs # None) =>
    \/ DirsFitSource(opthdr[1].DataDirs[1].len)
    \/ DirsFitRegion(opthdr[1].DataDirs[1].len)

\* the last call is the first call of the accessor op on this File
FirstCallOf(op) == last.op = op /\ last.prior = None /\ ~last.priorFailed

\* C12: whenever a call has read a file header without error, the File holds
\* the header decoded from the 24 source bytes at PEHdrOffset, which start
\* with 50 45 00 00; and the first call of FileHeader returns an error when
\* the source does not hold these 24 bytes with that signature.
C12_FileHeaderAsOnDisk ==
  /\ "FileHeader" \in last.parsed =>
       SrcHasFileHeader /\ fileHdr = Some(SrcFileHeader)
  /\ (FirstCallOf("FileHeader") /\ SrcHasDOSHeader /\ ~SrcHasFileHeader) =>
       last.err

\* C13: once DOSHeader has returned the DOS header, no later call of Parse
\* reads the DOS header from the source and decodes it again (stated for the
\* DOS header; a source whose PEHdrOffset points behind the DOS header).
C13_ParsedAtMostOnce ==
  ( /\ last.op = "Parse" /\ succ["DOSHeader"] # None
    /\ ~Less(SrcPEHdrOffset, FromInt(dosHdrSize)) )
    => /\ "DOSHeader" \notin last.parsed
       /\ last.reads \cap (0..(dosHdrSize - 1)) = {}

\* bit i of the integer w
BitOf(w, i) == (w \div 2^i) % 2

\* C14: ParseFPOData returns Regs = bits 0-2 of the Bitfield, HasSEH = bit 3,
\* UseBP = bit 4, Reserved = bit 5, Frame = bits 6-7 (0 FPO, 1 Trap, 2 TSS,
\* 3 NonFPO), NLocals and Params the exact products of the raw values with
\* 4, and OffsetStart, FuncSize and Prolog unchanged.
C14_FPODecoded ==
  (calc.op = "ParseFPOData" /\ calc.done) =>
    /\ calc.val.Regs = calc.arg.Bitfield % 8
    /\ calc.val.HasSEH = (BitOf(calc.arg.Bitfield, 3) = 1)
    /\ calc.val.UseBP = (BitOf(calc.arg.Bitfield, 4) = 1)
    /\ calc.val.Reserved = BitOf(calc.arg.Bitfield, 5)
    /\ calc.val.Frame = calc.arg.Bitfield \div 64
    /\ calc.val.Frame =
         <<FrameTypeFPO, FrameTypeTrap, FrameTypeTSS, FrameTypeNonFPO>>
           [calc.arg.Bitfield \div 64 + 1]
    /\ calc.val.NLocals = Add(Add(calc.arg.NLocals, calc.arg.NLocals),
                              Add(calc.arg.NLocals, calc.arg.NLocals))
    /\ ~Less(calc.val.NLocals, calc.arg.NLocals)
    /\ calc.val.Params = FromInt(calc.arg.Params + calc.arg.Params
                                   + calc.arg.Params + calc.arg.Params)
    /\ calc.val.OffsetStart = calc.arg.OffsetStart
    /\ calc.val.FuncSize = calc.arg.FuncSize
    /\ calc.val.Prolog = calc.arg.Prolog

\* C14 witness: a record with every Bitfield bit set and the largest NLocals
\* and Params has been decoded; the decoded NLocals exceeds 32 bits.
C14_Witness ==
  /\ calc.op = "ParseFPOData" /\ calc.done
  /\ calc.arg.Bitfield = 255 /\ calc.arg.NLocals = MaxU32
  /\ calc.arg.Params = B16 - 1
  /\ calc.val.NLocals.hi >= B16 /\ calc.val.Frame = FrameTypeNonFPO

\* bit i of the 32-bit word w
BitOf32(w, i) == IF i < 16 THEN BitOf(w.lo, i) ELSE BitOf(w.hi, i - 16)

\* the bits of 0..(n-1) that satisfy set, in ascending order
RECURSIVE BitsFrom(_, _, _)
BitsFrom(set, i, n) ==
  IF i = n THEN <<>>
  ELSE (IF i \in set THEN <<i>> ELSE <<>>) \o BitsFrom(set, i + 1, n)

\* the part e stands for the set bit of value mask: it is the name the map
\* gives the bit, or an unknown-flag marker that carries the value
MarksBit(e, mask, key, name) ==
  IF key \in DOMAIN name
  THEN e = Named(name[key])
  ELSE e.arg = Some(mask) /\ e.text \notin {"none", "align %d"}

\* the parts ss stand one for one, in ascending order, for the bits listed
\* in bits
MarksBits16(ss, bits, name) ==
  /\ Len(ss) >= Len(bits)
  /\ \A k \in 1..Len(bits) :
       MarksBit(ss[k], FromInt(2^bits[k]), 2^bits[k], name)

MarksBits32(ss, bits) ==
  /\ Len(ss) >= Len(bits)
  /\ \A k \in 1..Len(bits) :
       MarksBit(ss[k], SectFlagBit(bits[k]), SectFlagBit(bits[k]), sectFlagName)

\* the set bits of a 16-bit word, and those of a section word outside its
\* alignment field (bits 20-23), ascending
SetBits16(w) == BitsFrom({ i \in 0..15 : BitOf(w, i) = 1 }, 0, 16)

SetBits32(w) ==
  BitsFrom({ i \in (0..31) \ (20..23) : BitOf32(w, i) = 1 }, 0, 32)

\* the alignment field of a section word: bits 20-23
AlignField(w) == (w.hi \div 16) % 16

\* C15: Flag.String and DLLFlag.String return one part for each set bit, in
\* ascending bit order (the bit's name, or an unknown-flag marker with the
\* bit's value); SectFlag.String does so for the bits outside the alignment
\* field, followed by one alignment part exactly when the field is not
\* zero; the result is "none" only for the word 0.
C15_NoFlagDropped ==
  /\ (calc.op = "Flag.String" /\ calc.done) =>
       IF calc.arg = 0 THEN calc.val = <<Named("none")>>
       ELSE /\ Len(calc.val) = Len(SetBits16(calc.arg))
            /\ MarksBits16(calc.val, SetBits16(calc.arg), flagName)
  /\ (calc.op = "DLLFlag.String" /\ calc.done) =>
       IF calc.arg = 0 THEN calc.val = <<Named("none")>>
       ELSE /\ Len(calc.val) = Len(SetBits16(calc.arg))
            /\ MarksBits16(calc.val, SetBits16(calc.arg), dllFlagName)
  /\ (calc.op = "SectFlag.String" /\ calc.done) =>
       IF calc.arg = FromInt(0) THEN calc.val = <<Named("none")>>
       ELSE /\ Len(calc.val) = Len(SetBits32(calc.arg))
                                 + (IF AlignField(calc.arg) # 0 THEN 1 ELSE 0)
            /\ MarksBits32(calc.val, SetBits32(calc.arg))
            /\ AlignField(calc.arg) # 0 =>
                 calc.val[Len(calc.val)].text
                   \in {"align %d", "unknown align flag: 0x%08X"}


----------------------------------------------------------------------------
(* Reserved fields                                                         *)

\* the reserved fields of a source lie in no other header: the PE header
\* starts behind the DOS header
NoOverlap == SrcHasDOSHeader => SrcPEHdrOffset.hi # 0 \/ SrcPEHdrOffset.lo >= dosHdrSize

\* the offsets at which the two sources may differ
ResvOffsets == DOSResvOffsets \cup OptResvOffsets(src)

\* a header value with its reserved fields blanked
BlankDOS(v) ==
  IF v = None THEN None
  ELSE Some([v[1] EXCEPT !.Res = [i \in 1..Len(@) |-> 0],
                         !.Res2 = [i \in 1..Len(@) |-> 0]])

BlankOpt(v) ==
  IF v = None THEN None
  ELSE Some([v[1] EXCEPT !.OptHeader32.Res = FromInt(0)])

\* the bytes a and b, both read at the offset off, are equal apart from the
\* reserved fields
SameBytes(a, b, off) ==
  /\ Len(a) = Len(b)
  /\ \A i \in 1..Len(a) : a[i] = b[i] \/ (off + i - 1) \in ResvOffsets

\* the values a and b that the operation op returned are equal apart from
\* the reserved fields
SameValue(op, a, b) ==
  IF a = None \/ b = None THEN a = b
  ELSE IF op = "DOSHeader" THEN BlankDOS(a) = BlankDOS(b)
  ELSE IF op = "OptHeader" THEN BlankOpt(a) = BlankOpt(b)
  ELSE IF op = "Overlay" THEN SameBytes(a[1], b[1], Len(src) - Len(a[1]))
  ELSE IF op = "Section" THEN SameBytes(a[1], b[1], last.arg[1].Offset.lo)
  ELSE a = b

\* the number of non-zero reserved words of the DOS header of the source s
DOSResvWords(s) ==
  Cardinality({ o \in DOSResvOffsets : o % 2 = 0 /\ LE16(s, o) # 0 })

\* the number of non-zero reserved fields of the optional header that
\* parseOptHeader reads in the source s
OptResvWords(s) ==
  IF LE32(s, LE32(s, dosHdrSize - 4).lo + fileHdrSize + 52) = FromInt(0)
  THEN 0 ELSE 1

\* the warnings due for a call on the source s that parsed the structures
\* in parsed
WarningsDue(s, parsed) ==
  (IF "DOSHeader" \in parsed THEN DOSResvWords(s) ELSE 0)
    + (IF "OptHeader32" \in parsed THEN OptResvWords(s) ELSE 0)

\* the two Files ended their last call alike, apart from the reserved
\* fields and the warnings for them
SameOutcome ==
  /\ last.err = twin.last.err
  /\ last.panicked = twin.last.panicked
  /\ SameValue(last.op, last.val, twin.last.val)
  /\ last.reads = twin.last.reads
  /\ last.nread = twin.last.nread
  /\ last.nseek = twin.last.nseek
  /\ last.parsed = twin.last.parsed
  /\ BlankDOS(doshdr) = BlankDOS(twin.doshdr)
  /\ fileHdr = twin.fileHdr
  /\ BlankOpt(opthdr) = BlankOpt(twin.opthdr)
  /\ sectHdrs = twin.sectHdrs
  /\ SameValue("Overlay", overlay, twin.overlay)
  /\ last.nwarn = WarningsDue(src, last.parsed)
  /\ twin.last.nwarn = WarningsDue(twin.r, twin.last.parsed)

\* C16: two sources that differ only in the reserved words of the DOS header
\* or the reserved field of the optional header give the same outcome for
\* every call of Parse and of every accessor: the same error or panic, the
\* same reads and seeks, the same structures parsed and cached, the same
\* value apart from the reserved fields, and one warning for each non-zero
\* reserved word that the call parsed.  (As the claim has it, for every such
\* pair of sources.)
C16_ReservedNeverMatter == twin # None => SameOutcome

\* C16, amended: the same, for sources whose PE header starts behind the
\* DOS header, so that no reserved word is a field of another header too
C16_ReservedOnlyWarn == twin # None /\ NoOverlap => SameOutcome

\* Parse succeeded on both Files, without a warning on the one and with all
\* fifteen warnings on the other
C16_Witness ==
  /\ twin # None
  /\ NoOverlap
  /\ last.op = "Parse"
  /\ ~last.err /\ ~last.panicked
  /\ last.nwarn = 0
  /\ twin.last.nwarn = 15
  /\ twin.doshdr # doshdr
  /\ twin.opthdr # opthdr


\* C17: for a source whose headers parse and whose file header declares no
\* section, SectHeaders returns an empty list and no error, and Overlay
\* returns, without error, the source bytes from PEHdrOffset + 24 +
\* OptHdrSize to the end of the source.
C17_NoSections ==
  (SrcHasFileHeader /\ SrcFileHeader.NSection = 0) =>
    /\ last.op = "SectHeaders" => ReturnedOK /\ last.val = Some(<<>>)
    /\ last.op = "Overlay" =>
         ReturnedOK /\ last.val = Some(SrcFrom(SrcSectHdrsOff))


\* C18: in every state, the cached headers respect the prerequisite order:
\* the optional header is cached only if the file header is, the file header
\* and the section headers only if the DOS header is, the section headers
\* only if the file header is, and the overlay only if the section headers
\* are.
C18_PrerequisiteOrder ==
  /\ opthdr # None => fileHdr # None
  /\ fileHdr # None => doshdr # None
  /\ sectHdrs # None => doshdr # None
  /\ sectHdrs # None => fileHdr # None
  /\ overlay # None => sectHdrs # None


\* C19: a call of OptHeader on a source with a file header reads no source
\* byte at or beyond PEHdrOffset + 24 + OptHdrSize, the end of the
\* optional-header region the file header declares, and returns an error
\* when the NDataDir it has read counts more data directories than that
\* region holds behind the 96-byte fixed part.
C19_OptHeaderStaysInRegion ==
  (last.op = "OptHeader" /\ SrcHasFileHeader) =>
    /\ \A o \in last.reads : Less(FromInt(o), SrcSectHdrsOff)
    /\ ( "OptHeader32" \in last.parsed
         /\ ~DirsFitRegion(opthdr[1].OptHeader32.NDataDir) ) => last.err


\* NDataDir as the source holds it, in the last field of the 96-byte fixed
\* part of the optional header
SrcNDataDir == LE32(src, SrcOptOff.lo + optHdr32Size - 4)

\* data directory i (from 0) as the source holds it
SrcDataDir(i) ==
  [ RelAddr |-> LE32(src, SrcOptOff.lo + optHdr32Size + dataDirSize * i),
    Size    |-> LE32(src, SrcOptOff.lo + optHdr32Size + dataDirSize * i + 4) ]

\* C20: whenever a call has parsed the optional header without error, the
\* source holds NDataDir <= 16 and all 8 * NDataDir bytes directly behind
\* the 96-byte fixed part at PEHdrOffset + 24, and DataDirs has exactly
\* NDataDir entries, entry i being the (RelAddr, Size) pair decoded
\* little-endian from the 8 bytes at PEHdrOffset + 24 + 96 + 8 * i.
C20_DataDirsAsOnDisk ==
  "OptHeader" \in last.parsed =>
    /\ SrcHasDOSHeader
    /\ SrcOptOff.hi = 0
    /\ SrcOptOff.lo + optHdr32Size <= Len(src)
    /\ SrcNDataDir.hi = 0
    /\ dataDirSize * SrcNDataDir.lo <= maxOptHdrSize - optHdr32Size
    /\ SrcOptOff.lo + optHdr32Size + dataDirSize * SrcNDataDir.lo <= Len(src)
    /\ opthdr # None
    /\ opthdr[1].DataDirs # None
    /\ opthdr[1].DataDirs[1].len = SrcNDataDir
    /\ Len(opthdr[1].DataDirs[1].elems) = SrcNDataDir.lo
    /\ \A i \in 1..SrcNDataDir.lo :
         opthdr[1].DataDirs[1].elems[i] = SrcDataDir(i - 1)

\* a call has parsed an optional header of two data directories that differ
C20_Witness ==
  /\ "OptHeader" \in last.parsed
  /\ ReturnedOK
  /\ SrcNDataDir = FromInt(2)
  /\ SrcDataDir(0) # SrcDataDir(1)
  /\ last.val # None


----------------------------------------------------------------------------
(* Parse                                                                   *)

\* s is a non-empty prefix of t
IsPrefixOf(s, t) ==
  /\ Len(s) >= 1
  /\ Len(s) <= Len(t)
  /\ \A i \in 1..Len(s) : s[i] = t[i]

\* the names in the sequence s
NamesIn(s) == { s[i] : i \in 1..Len(s) }

\* what a step that is a call of Parse leaves behind: the parse functions
\* were entered in the fixed order, each only after the one before it had
\* ended without error, parseOptHeader exactly when the file header just
\* parsed has OptHdrSize > 0; Parse returned an error exactly when the last
\* one entered failed; and without error the DOS header, the file header
\* and the section headers are cached, and the optional header, not cached
\* before the call, is cached exactly when OptHdrSize > 0
ParseStepInOrder ==
  /\ ~last'.panicked
  /\ \/ IsPrefixOf(last'.tried,
                   <<"DOSHeader", "FileHeader", "OptHeader", "SectHeaders">>)
     \/ IsPrefixOf(last'.tried, <<"DOSHeader", "FileHeader", "SectHeaders">>)
  /\ "FileHeader" \in NamesIn(last'.tried) <=> "DOSHeader" \in last'.parsed
  /\ "OptHeader" \in NamesIn(last'.tried) <=>
       ("FileHeader" \in last'.parsed /\ fileHdr'[1].OptHdrSize > 0)
  /\ "SectHeaders" \in NamesIn(last'.tried) <=>
       /\ "FileHeader" \in last'.parsed
       /\ fileHdr'[1].OptHdrSize > 0 => "OptHeader" \in last'.parsed
  /\ last'.err <=> last'.tried[Len(last'.tried)] \notin last'.parsed
  /\ ~last'.err =>
       /\ doshdr' # None /\ fileHdr' # None /\ sectHdrs' # None
       /\ opthdr = None => (opthdr' # None <=> fileHdr'[1].OptHdrSize > 0)

\* C21: Parse attempts the DOS header, the file header, the optional header
\* (only when OptHdrSize > 0) and the section headers in this order, returns
\* the first error met and attempts no later header after it; when it
\* returns without error the DOS header, the file header and the section
\* headers are cached, and the optional header is cached exactly when
\* OptHdrSize > 0, given none was cached before.
C21_ParseInOrder == [][last'.op = "Parse" => ParseStepInOrder]_vars

\* Parse has parsed all four headers of a File that had none cached, and
\* has returned without error
C21_Witness ==
  /\ last.op = "Parse"
  /\ ReturnedOK
  /\ last.tried = <<"DOSHeader", "FileHeader", "OptHeader", "SectHeaders">>
  /\ opthdr # None
  /\ sectHdrs # None


----------------------------------------------------------------------------
(* The alignment field of the section flags                                *)

\* the parts of the string SectFlag.String returned; "none" has no part
PartsOf(val) == IF val = <<Named("none")>> THEN <<>> ELSE val

\* the positions in the parts ss whose text is in texts
PartsWith(ss, texts) == { k \in 1..Len(ss) : ss[k].text \in texts }

\* the texts of the parts that speak of the alignment
AlignTexts == {"align %d", "unknown align flag: 0x%08X"}

\* C22: SectFlag.String treats bits 20-23 as one value: no part of its
\* result stands for one of the bits 20-23 (the parts other than the
\* alignment part are as many as the bits set outside the field, and none of
\* them carries the mask of a bit of the field); when the field holds n in
\* 1..14 there is exactly one alignment part, the last one, and it reads
\* "align 2^(n-1)" whatever the other bits are; when n = 0 there is none.
C22_AlignmentIsAValue ==
  (calc.op = "SectFlag.String" /\ calc.done) =>
    /\ Cardinality(PartsWith(PartsOf(calc.val), AlignTexts))
         + Len(SetBits32(calc.arg)) = Len(PartsOf(calc.val))
    /\ \A k \in 1..Len(PartsOf(calc.val)) : \A i \in 20..23 :
         /\ PartsOf(calc.val)[k].arg # Some(SectFlagBit(i))
         /\ SectFlagBit(i) \in DOMAIN sectFlagName =>
              PartsOf(calc.val)[k].text # sectFlagName[SectFlagBit(i)]
    /\ AlignField(calc.arg) \in 1..14 =>
         /\ PartsWith(PartsOf(calc.val), AlignTexts) = {Len(PartsOf(calc.val))}
         /\ calc.val[Len(calc.val)] =
              Formatted("align %d", FromInt(2^(AlignField(calc.arg) - 1)))
    /\ AlignField(calc.arg) = 0 =>
         PartsWith(PartsOf(calc.val), AlignTexts) = {}

\* SectFlag.String has returned for a word with flags set below and above
\* the alignment field and the largest alignment in it
C22_Witness ==
  /\ calc.op = "SectFlag.String" /\ calc.done
  /\ AlignField(calc.arg) = 14
  /\ BitOf32(calc.arg, 5) = 1 /\ BitOf32(calc.arg, 31) = 1
  /\ calc.val[Len(calc.val)] = Formatted("align %d", FromInt(8192))
  /\ Len(calc.val) > 2


\* a | b on uint32 operands
Or32(a, b) ==
  [hi |-> a.hi + b.hi - BitAnd(a.hi, b.hi, 16),
   lo |-> a.lo + b.lo - BitAnd(a.lo, b.lo, 16)]

\* what the part e of a section flag string encodes again: the mask whose
\* name it is, looked up in the flag table; the alignment constant whose
\* alignment it reports, looked up in the table of alignments; nothing for
\* any other part
ReencodePart(e) ==
  IF e.arg = None /\ \E m \in DOMAIN sectFlagName : sectFlagName[m] = e.text
    THEN CHOOSE m \in DOMAIN sectFlagName : sectFlagName[m] = e.text
  ELSE IF e.text = "align %d" /\ \E k \in 1..14 : e.arg = Some(FromInt(2^(k - 1)))
    THEN SectFlagObjAlign(CHOOSE k \in 1..14 : e.arg = Some(FromInt(2^(k - 1))))
  ELSE FromInt(0)

\* the word the parts ss encode again
RECURSIVE Reencode(_)
Reencode(ss) ==
  IF ss = <<>> THEN FromInt(0)
  ELSE Or32(ReencodePart(Head(ss)), Reencode(Tail(ss)))

\* the bits of the known flag table, ascending
RECURSIVE KnownBitsFrom(_)
KnownBitsFrom(i) ==
  IF i = 32 THEN FromInt(0)
  ELSE Or32(IF SectFlagBit(i) \in DOMAIN sectFlagName
            THEN SectFlagBit(i) ELSE FromInt(0),
            KnownBitsFrom(i + 1))

\* the bit positions of the known flag table and of the alignment field
RoundTripMask == Or32(KnownBitsFrom(0), SectFlagObjAlign(15))

\* C23: encoding the result of SectFlag.String again (the masks of the
\* recognized flags, and the alignment constant found by table lookup from
\* the reported alignment) gives the original word on the bit positions of
\* the known flag table and on the alignment field.
C23_SectFlagRoundTrip ==
  (calc.op = "SectFlag.String" /\ calc.done) =>
    Reencode(calc.val) = And32(calc.arg, RoundTripMask)


----------------------------------------------------------------------------
(* Two threads                                                             *)

\* the DOS header the source holds
SrcDOSHeader == DecodeDOSHeader(SubSeq(src, dosHdrSize - dosHdrBodySize + 1, dosHdrSize))

\* the last call of thread t has returned, without error, a header object
\* whose fields the caller finds zero
ReturnedBlank(t) ==
  /\ race.res[t] # None
  /\ ~race.res[t][1].err
  /\ race.res[t][1].val = Some(ZeroDOSHeader)

\* C24: the header cache is unguarded shared state.  On a source that holds
\* a DOS header, as long as one thread alone has called DOSHeader the
\* header is read from the source at most once and every call returns the
\* header the source holds; once two threads call, the header may be read
\* more than once (at most once by each call), and a caller may return
\* without error a header object that is allocated but not populated, which
\* is then an object that the other thread has allocated.  (That both do
\* happen is what the witness shows.)
C24_RaceNeedsTwoThreads ==
  (race # None /\ SrcHasDOSHeader) =>
    /\ (\E u \in Threads : race.calls[u] = 0) =>
         /\ race.nbody <= 1
         /\ \A t \in Threads :
              race.res[t] # None =>
                /\ ~race.res[t][1].err
                /\ race.res[t][1].val = Some(SrcDOSHeader)
    /\ race.nbody <= race.calls[1] + race.calls[2]
    /\ race.nbody = Len(race.heap)
         - Cardinality({ t \in Threads : race.pc[t] = "body" })
    /\ \A t \in Threads : ReturnedBlank(t) => race.res[t][1].by # t

\* each of the two threads has called DOSHeader once on a File with no
\* header cached: the header has been read from the source twice, and one
\* caller has returned, without error, a header object of the other thread
\* in which it finds no field populated
C24_Witness ==
  /\ race # None
  /\ SrcHasDOSHeader
  /\ race.calls = [t \in Threads |-> 1]
  /\ race.pc = [t \in Threads |-> "idle"]
  /\ race.nbody = 2
  /\ \E t \in Threads : ReturnedBlank(t) /\ race.res[t][1].by # t


----------------------------------------------------------------------------
(* Lazy evaluation                                                         *)

\* the cache entries a step that is a call of last'.op leaves as they were
FrameKept ==
  /\ last'.op = "DOSHeader" => UNCHANGED <<fileHdr, opthdr, sectHdrs, overlay>>
  /\ last'.op = "FileHeader" => UNCHANGED <<opthdr, sectHdrs, overlay>>
  /\ last'.op = "OptHeader" => UNCHANGED <<sectHdrs, overlay>>
  /\ last'.op = "SectHeaders" => UNCHANGED <<opthdr, overlay>>
  /\ last'.op = "Section" =>
       UNCHANGED <<doshdr, fileHdr, opthdr, sectHdrs, overlay>>
  /\ last'.op = "DOSStub" => UNCHANGED <<fileHdr, opthdr, sectHdrs, overlay>>

\* New has read nothing and has left the five cache entries unset
NewIsLazy ==
  last.op = "New" =>
    /\ last.reads = {} /\ last.nread = 0 /\ last.nseek = 0
    /\ doshdr = None /\ fileHdr = None /\ opthdr = None
    /\ sectHdrs = None /\ overlay = None

\* C25: evaluation is lazy, and an accessor changes only its own cache entry
\* and those of its prerequisites: New reads nothing and leaves the five
\* cache entries unset; DOSHeader leaves the file header, optional header,
\* section headers and overlay entries unchanged; FileHeader the optional
\* header, section headers and overlay; OptHeader the section headers and
\* overlay; SectHeaders the optional header and overlay; Section changes no
\* cache entry, DOSStub none but the DOS header.
C25_LazyFrames == []NewIsLazy /\ [][FrameKept]_vars

\* the first call on a File was SectHeaders: it has returned the section
\* headers and cached them together with the DOS header and the file
\* header, while the optional header and the overlay are still unset
C25_Witness ==
  /\ last.op = "SectHeaders"
  /\ ReturnedOK
  /\ last.tried = <<"SectHeaders", "DOSHeader", "FileHeader">>
  /\ doshdr # None /\ fileHdr # None /\ sectHdrs # None
  /\ Len(sectHdrs[1]) = MaxSect
  /\ opthdr = None /\ overlay = None


----------------------------------------------------------------------------
(* The DOS stub                                                            *)

\* C26: on a source that holds a DOS header, DOSStub returns the bytes
\* between the DOS header and the PE header: when PEHdrOffset > 64, the
\* PEHdrOffset - 64 bytes at offset 64, or an error if the source is
\* shorter; when PEHdrOffset <= 64, a nil stub and no error, without a read
\* behind the DOS header.
C26_DOSStubBetweenHeaders ==
  (last.op = "DOSStub" /\ SrcHasDOSHeader) =>
    IF Less(FromInt(dosHdrSize), SrcPEHdrOffset)
    THEN IF ~Less(FromInt(Len(src)), SrcPEHdrOffset)
         THEN /\ ReturnedOK
              /\ last.val = Some(SubSeq(src, dosHdrSize + 1, SrcPEHdrOffset.lo))
         ELSE last.err
    ELSE /\ ReturnedOK
         /\ last.val = None
         /\ \A o \in last.reads : o < dosHdrSize

====
